---- MODULE Spec2Model ----
(***************************************************************************)
(* A model of quicktype-core's Type Graph engine                           *)
(* (packages/quicktype-core/src/Type/TypeGraph.ts): TypeAttributeStore,    *)
(* TypeGraph.freeze, filterTypes / allNamedTypes, allProvenance,           *)
(* checkLostTypeAttributes, rewrite, remap, garbageCollect and             *)
(* rewriteFixedPoint.                                                      *)
(*                                                                         *)
(* The graph builders (GraphRewriteBuilder, GraphRemapBuilder, TypeBuilder)*)
(* TypeRef and the attribute kinds live in other files of the repository;  *)
(* where the engine depends on them they are modelled from the design      *)
(* document (sections 3, 4.4, 4.6, 4.7).                                   *)
(***************************************************************************)
EXTENDS Integers, Sequences, FiniteSets, TLC

\* ------------------------------------------------------------------ bounds

\* Largest number of nodes a TypeBuilder puts in the graph it freezes.
MaxNodes == 3
\* Largest size (nodes + child edges + top-levels + attribute entries) of the
\* graph a TypeBuilder constructs.
MaxSize == 5

\* Nodes, children and top-levels of a graph built for a traversal, where the
\* order of two children of a node is what matters.
MaxTraversalSize == 7

\* Largest number of replacement groups handed to one rewrite.
MaxGroups == 2
\* Calls addFromType may make before a traversal is given up as diverging.
MaxCalls == 24
\* Iterations of the rewriteFixedPoint loop the model follows.
MaxIter == 4
\* Writes to attribute stores the model follows.
MaxWrites == 2

TopLevelNames == {"R", "S"}
Markers == {1, 2}
ProvenanceKind == "provenance"
KindX == "kindX"
Kinds == {ProvenanceKind, KindX}

\* ----------------------------------------------------------------- helpers

Range(s) == {s[i] : i \in DOMAIN s}

Max(a, b) == IF a >= b THEN a ELSE b

RECURSIVE SumSeq(_)
SumSeq(s) == IF s = <<>> THEN 0 ELSE Head(s) + SumSeq(Tail(s))

\* The sequence s without later repetitions of an element: the order in which
\* a JavaScript Set built from s enumerates.
RECURSIVE Dedup(_)
Dedup(s) ==
    IF s = <<>> THEN <<>>
    ELSE LET front == Dedup(SubSeq(s, 1, Len(s) - 1))
             last == s[Len(s)]
         IN IF last \in Range(front) THEN front ELSE Append(front, last)

RECURSIVE Concat(_)
Concat(ss) == IF ss = <<>> THEN <<>> ELSE Head(ss) \o Concat(Tail(ss))

\* The elements of a finite set of integers in ascending order.
RECURSIVE SortedSeq(_)
SortedSeq(S) ==
    IF S = {} THEN <<>>
    ELSE LET m == CHOOSE x \in S : \A y \in S : x <= y
         IN <<m>> \o SortedSeq(S \ {m})

\* --------------------------------------------------------------- attributes

\* TypeAttributes: a map from attribute kind to value.  Values are sets of
\* markers (the provenance kind's values are Set<number>).
emptyTypeAttributes == [k \in {} |-> {}]

AttributeValues == SUBSET Markers

\* A slot of the store's array: TypeAttributes | undefined.
UndefinedSlot == [def |-> FALSE, attrs |-> emptyTypeAttributes]
Slot(a) == [def |-> TRUE, attrs |-> a]

\* ----------------------------------------------------------------- TypeRef

\* A type reference: the serial of the graph generation it belongs to and the
\* index into that generation's node array.
makeTypeRef(serial, index) == [serial |-> serial, index |-> index]
typeRefIndex(tref) == tref.index
\* assertTypeRefGraph(tref, graph) passes.
TypeRefGraphOk(tref, g) == tref.serial = g.serial

\* A node: its reference and the indexes of its children, in the order its
\* child enumeration reports them.
\* indirection marks a placeholder a rewrite builder put in for a forwarding
\* reference.
Type(serial, index, children, indirection) ==
    [typeRef |-> makeTypeRef(serial, index), children |-> children,
     indirection |-> indirection]

\* ------------------------------------------------------------------- state

VARIABLES
    graphs,     \* the TypeGraph objects alive: graphs[1] is the graph the
                \* caller holds, graphs[2] the generation last derived from it
    builder,    \* the TypeBuilder that owns graphs[1] while it is open
    ret,        \* what the last call did and returned
    fp,         \* the activation of rewriteFixedPoint, while it runs
    writes      \* how many writes the attribute stores have taken

vars == <<graphs, builder, ret, fp, writes>>

\* new TypeGraph(typeBuilder, serial, haveProvenanceAttributes)
NewTypeGraph(serial, haveProvenanceAttributes) ==
    [ serial |-> serial,
      haveProvenanceAttributes |-> haveProvenanceAttributes,
      typeBuilder |-> TRUE,             \* _typeBuilder !== undefined
      attributeStore |-> FALSE,         \* _attributeStore !== undefined
      values |-> <<>>,                  \* _attributeStore._values
      topLevelValues |-> [n \in {} |-> emptyTypeAttributes],
      topLevels |-> <<>>,               \* _topLevels, in insertion order
      typesDefined |-> FALSE,           \* _types !== undefined
      types |-> <<>>,                   \* _types
      parentsDefined |-> FALSE,         \* _parents !== undefined
      parents |-> <<>>,                 \* _parents
      printOnRewrite |-> FALSE ]

isFrozen(g) == ~g.typeBuilder

\* ------------------------------------------------------ TypeAttributeStore

\* attributesForType, once getTypeIndex has accepted the node.
attributesForType(g, t) ==
    LET index == typeRefIndex(t.typeRef)
    IN IF index + 1 \in DOMAIN g.values /\ g.values[index + 1].def
       THEN g.values[index + 1].attrs
       ELSE emptyTypeAttributes

attributesForTopLevel(g, name) ==
    IF name \in DOMAIN g.topLevelValues
    THEN g.topLevelValues[name]
    ELSE emptyTypeAttributes

\* A getTypeIndex that asserts nothing.
getTypeIndexFailsNever(g, t) == FALSE

\* getTypeIndex(t): assertTypeRefGraph(tref, _typeGraph) fails.
getTypeIndexFails(g, t) == ~TypeRefGraphOk(t.typeRef, g)

\* attributesForType(t), as called.
attributesForTypeChecked(g, t) ==
    IF getTypeIndexFails(g, t)
    THEN [error |-> "fatal", value |-> emptyTypeAttributes]
    ELSE [error |-> "none", value |-> attributesForType(g, t)]

\* A setInMap that folds the new value into the one already stored.
setInMapMerging(attributes, kind, value) ==
    [k \in (DOMAIN attributes) \cup {kind} |->
        IF k = kind
        THEN (IF k \in DOMAIN attributes THEN attributes[k] \cup value ELSE value)
        ELSE attributes[k]]

\* A setInMap that starts from an empty map: new Map().set(kind, value).
setInMapFresh(attributes, kind, value) == [k \in {kind} |-> value]

\* The map passed to setInMap, after the call: new Map(attributes) copies it,
\* and the set goes to the copy.
setInMapArgument(attributes, kind, value) == attributes

\* new Map(attributes).set(kind, value)
setInMap(attributes, kind, value) ==
    [k \in (DOMAIN attributes) \cup {kind} |->
        IF k = kind THEN value ELSE attributes[k]]

\* The store's array after set(kind, t, value): grown with undefined slots up
\* to t's index, then t's slot replaced.
StoreSetValues(g, kind, t, value) ==
    LET index == typeRefIndex(t.typeRef)
        grown == [i \in 1..Max(Len(g.values), index + 1) |->
                    IF i <= Len(g.values) THEN g.values[i] ELSE UndefinedSlot]
    IN [grown EXCEPT ![index + 1] =
            Slot(setInMap(attributesForType(g, t), kind, value))]

StoreSetForTopLevelValues(g, kind, name, value) ==
    [n \in (DOMAIN g.topLevelValues) \cup {name} |->
        IF n = name
        THEN setInMap(attributesForTopLevel(g, name), kind, value)
        ELSE g.topLevelValues[n]]

\* tryGetInMap: the value or undefined, as a set of at most one value.
tryGetInMap(attributes, kind) ==
    IF kind \in DOMAIN attributes THEN {attributes[kind]} ELSE {}

tryGet(g, kind, t) == tryGetInMap(attributesForType(g, t), kind)

\* ------------------------------------------------------------------ freeze

\* What freeze(topLevels, types, typeAttributes) leaves of the graph, and
\* whether it threw.  topLevels is a sequence of [name, tref].
FreezeChecksTypes(g, types) ==
    \A i \in DOMAIN types : TypeRefGraphOk(types[i].typeRef, g)

\* A freeze without its assertion on isFrozen.
FreezeRejectsTypesOnly(g, types) == ~FreezeChecksTypes(g, types)

FreezeRejects(g, types) == isFrozen(g) \/ ~FreezeChecksTypes(g, types)

freeze(g, topLevels, types, typeAttributes) ==
    IF FreezeRejects(g, types)
    THEN [graph |-> g, error |-> "fatal"]
    ELSE LET stored == [g EXCEPT !.attributeStore = TRUE,
                                 !.values = typeAttributes,
                                 !.typesDefined = TRUE,
                                 !.types = types,
                                 !.typeBuilder = FALSE]
             derefOk == \A i \in DOMAIN topLevels :
                            TypeRefGraphOk(topLevels[i].tref, stored)
         IN IF derefOk
            THEN [graph |-> [stored EXCEPT !.topLevels =
                        [i \in DOMAIN topLevels |->
                            [name |-> topLevels[i].name,
                             type |-> types[typeRefIndex(topLevels[i].tref) + 1]]]],
                  error |-> "none"]
            ELSE [graph |-> stored, error |-> "fatal"]

\* ----------------------------------------------------------- graph queries

\* allTypesUnordered() on a frozen graph: new Set(_types).
allTypesUnordered(g) == Range(g.types)

\* A frozen-only getter that asserts nothing.
FrozenOnlyRejectsNever(g) == FALSE

\* assert(this.isFrozen, ...) at the head of the frozen-only getters.
FrozenOnlyRejects(g) == ~isFrozen(g)

\* get topLevels(), as called: the map, in insertion order, or a fatal error.
getTopLevels(g) ==
    IF FrozenOnlyRejects(g)
    THEN [error |-> "fatal", value |-> <<>>]
    ELSE [error |-> "none", value |-> g.topLevels]

\* allTypesUnordered(), as called: new Set(defined(_types)) or a fatal error.
allTypesUnorderedChecked(g) ==
    IF FrozenOnlyRejects(g) \/ ~g.typesDefined
    THEN [error |-> "fatal", value |-> {}]
    ELSE [error |-> "none", value |-> allTypesUnordered(g)]

NodeIndexes(g) == {typeRefIndex(t.typeRef) : t \in Range(g.types)}

TypeAt(g, index) == g.types[index + 1]

TopLevelIndexes(g) ==
    {typeRefIndex(g.topLevels[i].type.typeRef) : i \in DOMAIN g.topLevels}

\* The nodes reachable from the set S of indexes through child edges.
RECURSIVE Closure(_, _)
Closure(g, S) ==
    LET N == S \cup UNION {Range(TypeAt(g, i).children) : i \in S}
    IN IF N = S THEN S ELSE Closure(g, N)

Reachable(g) == Closure(g, TopLevelIndexes(g))

\* ------------------------------------------------------ getParentsOfType

\* getParentsOfType: a loop over the children of p that stops after the
\* first child it records.
recordChildrenFirstOnly(parents, p, j) ==
    IF j > Len(p.children) THEN parents
    ELSE [parents EXCEPT ![p.children[j] + 1] = @ \cup {p}]

\* for (const c of p.getChildren()) parents[c.index] = parents[c.index].add(p),
\* from the j-th child on.
RECURSIVE recordChildren(_, _, _)
recordChildren(parents, p, j) ==
    IF j > Len(p.children) THEN parents
    ELSE recordChildren([parents EXCEPT ![p.children[j] + 1] = @ \cup {p}],
                        p, j + 1)

\* for (const p of this.allTypesUnordered()) ..., from the i-th node on.
RECURSIVE recordParents(_, _, _)
recordParents(g, parents, i) ==
    IF i > Len(g.types) THEN parents
    ELSE recordParents(g, recordChildren(parents, g.types[i], 1), i + 1)

\* getParentsOfType(t): the graph with its cache, the set returned, and
\* whether this call built the index.
getParentsOfType(g, t) ==
    IF ~TypeRefGraphOk(t.typeRef, g) \/ (~g.parentsDefined /\ ~g.typesDefined)
    THEN [graph |-> g, error |-> "fatal", value |-> {}, built |-> FALSE]
    ELSE LET cached == IF g.parentsDefined THEN g
                       ELSE [g EXCEPT !.parentsDefined = TRUE,
                                      !.parents = recordParents(g,
                                            [i \in DOMAIN g.types |-> {}], 1)]
         IN [graph |-> cached, error |-> "none",
             value |-> cached.parents[typeRefIndex(t.typeRef) + 1],
             built |-> ~g.parentsDefined]

\* ------------------------------------------------------------- filterTypes

\* The traversal's state: the seen set, the types array in the order of the
\* pushes, the number of addFromType calls made so far, and whether the
\* traversal was still running when the model gave it up.
TraversalStart == [seen |-> {}, types |-> <<>>, calls |-> 0, diverged |-> FALSE]

RECURSIVE addFromType(_, _, _, _)
RECURSIVE addFromChildren(_, _, _, _, _)

\* addFromType without its seen guard.
addFromTypeUnguarded(g, predicate, t, st) ==
    IF st.diverged \/ st.calls >= MaxCalls
    THEN [st EXCEPT !.diverged = TRUE]
    ELSE LET marked == [st EXCEPT !.calls = @ + 1,
                                  !.seen = @ \cup {t},
                                  !.types = IF t \in predicate
                                            THEN Append(@, t) ELSE @]
         IN addFromChildren(g, predicate, TypeAt(g, t).children, 1, marked)

\* addFromType(t): predicate is the set of nodes the predicate accepts.
addFromType(g, predicate, t, st) ==
    IF st.diverged \/ st.calls >= MaxCalls
    THEN [st EXCEPT !.diverged = TRUE]
    ELSE IF t \in st.seen
    THEN [st EXCEPT !.calls = @ + 1]
    ELSE LET marked == [st EXCEPT !.calls = @ + 1,
                                  !.seen = @ \cup {t},
                                  !.types = IF t \in predicate
                                            THEN Append(@, t) ELSE @]
         IN addFromChildren(g, predicate, TypeAt(g, t).children, 1, marked)

\* The loop over the children taken from the last child to the first.
RECURSIVE addFromChildrenReversed(_, _, _, _, _)
addFromChildrenReversed(g, predicate, children, i, st) ==
    IF i > Len(children) THEN st
    ELSE addFromChildrenReversed(g, predicate, children, i + 1,
            addFromType(g, predicate, children[Len(children) + 1 - i], st))

\* for (const c of t.getChildren()) addFromType(c), from the i-th child on.
addFromChildren(g, predicate, children, i, st) ==
    IF i > Len(children) THEN st
    ELSE addFromChildren(g, predicate, children, i + 1,
                         addFromType(g, predicate, children[i], st))

\* for (const [, t] of this.topLevels) addFromType(t), from the i-th root on.
RECURSIVE addFromTopLevels(_, _, _, _)
addFromTopLevels(g, predicate, i, st) ==
    IF i > Len(g.topLevels) THEN st
    ELSE addFromTopLevels(g, predicate, i + 1,
            addFromType(g, predicate,
                        typeRefIndex(g.topLevels[i].type.typeRef), st))

\* filterTypes(predicate): the topLevels getter throws on an open graph.
filterTypes(g, predicate) ==
    IF ~isFrozen(g)
    THEN [error |-> "fatal", traversal |-> TraversalStart, set |-> {}]
    ELSE LET st == addFromTopLevels(g, predicate, 1, TraversalStart)
         IN [error |-> "none", traversal |-> st, set |-> Range(st.types)]

\* -------------------------------------------------------------- provenance

\* allProvenance(): the union of the provenance sets of all stored nodes.
allProvenance(g) ==
    UNION { UNION tryGet(g, ProvenanceKind, t) : t \in allTypesUnordered(g) }

\* The comparison that decides whether the lost-attribute error is raised.
ProvenanceDiffers(oldProvenance, newProvenance) ==
    Cardinality(oldProvenance) # Cardinality(newProvenance)

NoLoss == [raised |-> FALSE, count |-> 0, indexes |-> {}]

\* checkLostTypeAttributes(builder, newGraph) on graph g.
checkLostTypeAttributes(g, lostTypeAttributes, newGraph) ==
    IF ~g.haveProvenanceAttributes \/ lostTypeAttributes
    THEN NoLoss
    ELSE LET oldProvenance == allProvenance(g)
             newProvenance == allProvenance(newGraph)
             difference == oldProvenance \ newProvenance
         IN IF ProvenanceDiffers(oldProvenance, newProvenance)
            THEN [raised |-> TRUE,
                  count |-> Cardinality(difference),
                  indexes |-> difference]
            ELSE NoLoss

\* ---------------------------------------------------------------- builders
\* A rewrite or remap builder reconstitutes the old graph g into a new
\* generation.  Its input is, for every old node, the entity that stands for
\* it in the new graph: old node j itself (entity j, copied forward), or one of
\* the extra nodes the rewrite adds (entity Len(g.types) + k - 1 for the k-th
\* extra node: a group's replacement, or a forwarding placeholder).

\* Two tables of reconstituted types, one after the other.
ComposeTables(first, second) ==
    [i \in DOMAIN first |-> IF first[i] = -1 THEN -1 ELSE second[first[i] + 1]]

\* The merge rule of an attribute kind: provenance sets are united, a scalar
\* kind keeps the later value.
KindCombine(kind, earlier, later) ==
    IF kind = ProvenanceKind THEN earlier \cup later ELSE later

\* Two attribute sets combined, kind by kind, by union.
combineTypeAttributes(a, b) ==
    [k \in (DOMAIN a) \cup (DOMAIN b) |->
        (IF k \in DOMAIN a THEN a[k] ELSE {}) \cup
        (IF k \in DOMAIN b THEN b[k] ELSE {})]

RECURSIVE combineTypeAttributesOfTypes(_, _)
combineTypeAttributesOfTypes(g, indexes) ==
    IF indexes = {} THEN emptyTypeAttributes
    ELSE LET i == CHOOSE x \in indexes : \A y \in indexes : x <= y
         IN combineTypeAttributes(attributesForType(g, TypeAt(g, i)),
                combineTypeAttributesOfTypes(g, indexes \ {i}))

ExtraNode(children, attrs, indirection) ==
    [children |-> children, attrs |-> attrs, indirection |-> indirection]

EntityChildren(g, tgt, extra, e) ==
    IF e < Len(g.types)
    THEN LET ch == TypeAt(g, e).children
         IN Dedup([i \in 1..Len(ch) |-> tgt[ch[i] + 1]])
    ELSE extra[e - Len(g.types) + 1].children

\* An old node carried forward keeps its attributes, merged with those of the
\* old nodes it stands for.
EntityAttributes(g, tgt, extra, e) ==
    IF e < Len(g.types)
    THEN combineTypeAttributesOfTypes(g,
            {e} \cup {i \in NodeIndexes(g) : tgt[i + 1] = e})
    ELSE extra[e - Len(g.types) + 1].attrs

EntityIndirection(g, extra, e) ==
    IF e < Len(g.types) THEN TypeAt(g, e).indirection
    ELSE extra[e - Len(g.types) + 1].indirection

RECURSIVE EntityClosure(_, _, _, _)
EntityClosure(g, tgt, extra, S) ==
    LET N == S \cup UNION {Range(EntityChildren(g, tgt, extra, e)) : e \in S}
    IN IF N = S THEN S ELSE EntityClosure(g, tgt, extra, N)

RootEntities(g, tgt) == {tgt[i + 1] : i \in TopLevelIndexes(g)}

\* The entities the builder builds: those the new roots reach, or (walkAll)
\* those that stand for any old node.
KeptEntities(g, tgt, extra, walkAll) ==
    EntityClosure(g, tgt, extra,
        IF walkAll THEN Range(tgt) \cup RootEntities(g, tgt)
        ELSE RootEntities(g, tgt))

\* builder.finish(): the new generation, frozen, and the builder's table of
\* reconstituted types (old index -> new index, -1 when not carried forward).
BuilderFinish(newTypeGraph, g, tgt, extra, walkAll) ==
    LET kept == KeptEntities(g, tgt, extra, walkAll)
        order == SortedSeq(kept)
        newIndex(e) == (CHOOSE i \in 1..Len(order) : order[i] = e) - 1
        serial == newTypeGraph.serial
        types == [i \in 1..Len(order) |->
                    LET ch == EntityChildren(g, tgt, extra, order[i])
                    IN Type(serial, i - 1,
                            [j \in 1..Len(ch) |-> newIndex(ch[j])],
                            EntityIndirection(g, extra, order[i]))]
        typeAttributes == [i \in 1..Len(order) |->
                    Slot(EntityAttributes(g, tgt, extra, order[i]))]
        topLevels == [i \in DOMAIN g.topLevels |->
                    [name |-> g.topLevels[i].name,
                     tref |-> makeTypeRef(serial,
                        newIndex(tgt[typeRefIndex(g.topLevels[i].type.typeRef) + 1]))]]
    IN [graph |-> freeze(newTypeGraph, topLevels, types, typeAttributes).graph,
        reconstituted |-> [i \in 1..Len(g.types) |->
                    IF tgt[i] \in kept THEN newIndex(tgt[i]) ELSE -1],
        kept |-> kept]

\* ----------------------------------------------------------------- rewrite

\* The group a node belongs to (0: none).
GroupOf(replacementGroups, index) ==
    IF \E k \in DOMAIN replacementGroups : index \in replacementGroups[k]
    THEN CHOOSE k \in DOMAIN replacementGroups : index \in replacementGroups[k]
    ELSE 0

\* A replacer is described by what it builds for a group: mode "fresh" is a
\* node with no children, "merge" a node with the members' children;
\* provenance is the provenance set it gives the node; lost says it called
\* setLostTypeAttributes; forwarding says other nodes took the group's
\* forwarding reference, so that the builder had to add a placeholder.
ReplacementEntity(g, replacementGroups, k) == Len(g.types) + k - 1
PlaceholderEntity(g, replacementGroups, k) ==
    Len(g.types) + Len(replacementGroups) + k - 1

RewriteTargets(g, replacementGroups, forwarding) ==
    [i \in 1..Len(g.types) |->
        LET k == GroupOf(replacementGroups, i - 1)
        IN IF k = 0 THEN i - 1
           ELSE IF forwarding THEN PlaceholderEntity(g, replacementGroups, k)
           ELSE ReplacementEntity(g, replacementGroups, k)]

ReplacerChildren(g, tgt, group, mode) ==
    IF mode = "fresh" THEN <<>>
    ELSE LET members == SortedSeq(group)
         IN Dedup(Concat([j \in 1..Len(members) |->
                LET ch == TypeAt(g, members[j]).children
                IN [c \in 1..Len(ch) |-> tgt[ch[c] + 1]]]))

ReplacerAttributes(replacer) ==
    IF replacer.provenance = {} THEN emptyTypeAttributes
    ELSE [k \in {ProvenanceKind} |-> replacer.provenance]

RewriteExtra(g, replacementGroups, replacer) ==
    LET tgt == RewriteTargets(g, replacementGroups, replacer.forwarding)
    IN [k \in DOMAIN replacementGroups |->
            ExtraNode(ReplacerChildren(g, tgt, replacementGroups[k], replacer.mode),
                      ReplacerAttributes(replacer), FALSE)]
       \o (IF replacer.forwarding
           THEN [k \in DOMAIN replacementGroups |->
                    ExtraNode(<<ReplacementEntity(g, replacementGroups, k)>>,
                              emptyTypeAttributes, TRUE)]
           ELSE <<>>)

\* removeIndirectionIntersections(graph): a rewrite of graph that replaces
\* every placeholder by the node it stands for.
removeIndirectionIntersections(graph, walkAll) ==
    LET tgt == [i \in 1..Len(graph.types) |->
                    IF graph.types[i].indirection
                    THEN graph.types[i].children[1] ELSE i - 1]
        fresh == [NewTypeGraph(graph.serial + 1, graph.haveProvenanceAttributes)
                    EXCEPT !.printOnRewrite = graph.printOnRewrite]
    IN BuilderFinish(fresh, graph, tgt, <<>>, walkAll)

\* A new generation that takes the serial of the old one.
NextSerialSame(g) == g.serial

\* new TypeGraph(builder, this.serial + 1, ...)
NextSerial(g) == g.serial + 1

\* A rewrite that runs the corrective pass when the flag is not set.
NeedsCorrectivePassInverted(flag) == ~flag

\* if (!builder.didAddForwardingIntersection) return newGraph;
NeedsCorrectivePass(flag) == flag

\* A no-op test with the force flag inverted.
RewriteIsNoOpWhenForced(replacementGroups, force) ==
    force /\ Len(replacementGroups) = 0

\* A no-op test that forgets the replacement groups.
RewriteIsNoOpUnforced(replacementGroups, force) == ~force

\* rewrite returns this when nothing is to be done.
RewriteIsNoOp(replacementGroups, force) ==
    ~force /\ Len(replacementGroups) = 0

NoGraph == NewTypeGraph(0, FALSE)

\* rewrite(title, ..., replacementGroups, ..., replacer, force) on graph g.
\* returned: "this", "newGraph" or "corrected" (the result of the corrective
\* pass), or "none" when the call threw.
rewrite(g, replacementGroups, replacer, force, walkAll) ==
    IF RewriteIsNoOp(replacementGroups, force)
    THEN [returned |-> "this", builderMade |-> FALSE, error |-> "none",
          newGraph |-> NoGraph, corrected |-> NoGraph, loss |-> NoLoss,
          reconstituted |-> <<>>, final |-> <<>>, replacerCalls |-> <<>>]
    ELSE LET tgt == RewriteTargets(g, replacementGroups, replacer.forwarding)
             extra == RewriteExtra(g, replacementGroups, replacer)
             built == BuilderFinish(
                        NewTypeGraph(NextSerial(g), g.haveProvenanceAttributes),
                        g, tgt, extra, walkAll)
             loss == checkLostTypeAttributes(g, replacer.lost, built.graph)
             newGraph == [built.graph EXCEPT !.printOnRewrite = g.printOnRewrite]
             calls == [k \in DOMAIN replacementGroups |->
                        IF ReplacementEntity(g, replacementGroups, k) \in built.kept
                        THEN 1 ELSE 0]
             pass == removeIndirectionIntersections(newGraph, walkAll)
         IN IF loss.raised
            THEN [returned |-> "none", builderMade |-> TRUE,
                  error |-> "IRTypeAttributesNotPropagated",
                  newGraph |-> built.graph, corrected |-> NoGraph, loss |-> loss,
                  reconstituted |-> built.reconstituted, final |-> <<>>,
                  replacerCalls |-> calls]
            ELSE IF ~NeedsCorrectivePass(replacer.forwarding)
            THEN [returned |-> "newGraph", builderMade |-> TRUE, error |-> "none",
                  newGraph |-> newGraph, corrected |-> NoGraph, loss |-> loss,
                  reconstituted |-> built.reconstituted,
                  final |-> built.reconstituted, replacerCalls |-> calls]
            ELSE [returned |-> "corrected", builderMade |-> TRUE, error |-> "none",
                  newGraph |-> newGraph, corrected |-> pass.graph, loss |-> loss,
                  reconstituted |-> built.reconstituted,
                  final |-> ComposeTables(built.reconstituted, pass.reconstituted),
                  replacerCalls |-> calls]

\* ------------------------------------------------------------------- remap

\* builder.didAddForwardingIntersection: the graph the builder finished holds
\* a forwarding placeholder.
didAddForwardingIntersection(newGraph) ==
    \E t \in allTypesUnordered(newGraph) : t.indirection

\* The assertion at the end of remap, inverted.
RemapAssertFailsInverted(flag) == ~flag

\* assert(!builder.didAddForwardingIntersection) fails.
RemapAssertFails(flag) == flag

\* A no-op test that forgets the map.
RemapIsNoOpUnforced(map, force) == ~force

RemapIsNoOp(map, force) == ~force /\ DOMAIN map = {}

\* map is a function from old indexes to old indexes.
RemapTargets(g, map) ==
    [i \in 1..Len(g.types) |-> IF i - 1 \in DOMAIN map THEN map[i - 1] ELSE i - 1]

\* remap(title, ..., map, ..., force) on graph g.  A GraphRemapBuilder
\* rebuilds from the top-level roots, declares no lost attributes and adds no
\* forwarding placeholder.
remap(g, map, force) ==
    IF RemapIsNoOp(map, force)
    THEN [returned |-> "this", builderMade |-> FALSE, error |-> "none",
          newGraph |-> NoGraph, corrected |-> NoGraph, loss |-> NoLoss,
          reconstituted |-> <<>>, final |-> <<>>, replacerCalls |-> <<>>]
    ELSE LET built == BuilderFinish(
                        NewTypeGraph(NextSerial(g), g.haveProvenanceAttributes),
                        g, RemapTargets(g, map), <<>>, FALSE)
             loss == checkLostTypeAttributes(g, FALSE, built.graph)
             newGraph == [built.graph EXCEPT !.printOnRewrite = g.printOnRewrite]
         IN IF loss.raised
            THEN [returned |-> "none", builderMade |-> TRUE,
                  error |-> "IRTypeAttributesNotPropagated",
                  newGraph |-> built.graph, corrected |-> NoGraph, loss |-> loss,
                  reconstituted |-> built.reconstituted, final |-> <<>>,
                  replacerCalls |-> <<>>]
            ELSE IF RemapAssertFails(didAddForwardingIntersection(built.graph))
            THEN [returned |-> "none", builderMade |-> TRUE, error |-> "fatal",
                  newGraph |-> newGraph, corrected |-> NoGraph, loss |-> loss,
                  reconstituted |-> built.reconstituted, final |-> <<>>,
                  replacerCalls |-> <<>>]
            ELSE [returned |-> "newGraph", builderMade |-> TRUE, error |-> "none",
                  newGraph |-> newGraph, corrected |-> NoGraph, loss |-> loss,
                  reconstituted |-> built.reconstituted,
                  final |-> built.reconstituted, replacerCalls |-> <<>>]

\* garbageCollect(alphabetizeProperties, debugPrintReconstitution)
EmptyMap == [i \in {} |-> 0]

\* A garbageCollect that does not force the remap.
garbageCollectUnforced(g) == remap(g, EmptyMap, FALSE)

garbageCollect(g) == remap(g, EmptyMap, TRUE)

\* ------------------------------------------------------- rewriteFixedPoint

\* The replacer rewriteFixedPoint passes: mustNotHappen.  It builds nothing.
mustNotHappen ==
    [mode |-> "fresh", provenance |-> {}, lost |-> FALSE, forwarding |-> FALSE]

\* A rewriteFixedPoint that hands its rewrite the first node as a group.
FixedPointGroupsFirstNode(g) == IF Len(g.types) = 0 THEN <<>> ELSE <<{0}>>

\* The replacement groups rewriteFixedPoint hands its rewrite: [].
FixedPointGroups(g) == <<>>

\* The force flag rewriteFixedPoint hands its rewrite: true.
FixedPointForce == TRUE

\* mustNotHappen was called: the replacer ran for some group.
ReplacerCalled(r) == \E k \in DOMAIN r.replacerCalls : r.replacerCalls[k] > 0

\* The graph rewriteFixedPoint rewrites in an iteration, as a slot of the
\* heap: slot 1 holds this, slot fpGraph the local variable graph.
FixedPointReceiver(fpGraph) == 1

\* An exit test that waits for the node count to grow.
FixedPointStableOnGrowth(graph, newGraph) ==
    Cardinality(allTypesUnordered(graph)) < Cardinality(allTypesUnordered(newGraph))

\* The loop's exit test.
FixedPointStable(graph, newGraph) ==
    Cardinality(allTypesUnordered(graph)) = Cardinality(allTypesUnordered(newGraph))

FpIdle ==
    [active |-> FALSE, graph |-> 0, iter |-> 0, walkAll |-> FALSE,
     history |-> <<>>]

\* ------------------------------------------------------------ call records

NoSet == [kind |-> "", serial |-> 0, index |-> 0, value |-> {}, before |-> {}]

NoRet ==
    [ op |-> "none", error |-> "none",
      result |-> 0,              \* the slot of the graph returned (0: none)
      newGraph |-> 0,            \* the slot of the graph the builder finished
      builderMade |-> FALSE,
      loss |-> NoLoss,
      reconstituted |-> <<>>,    \* old index -> index in the builder's graph
      final |-> <<>>,            \* old index -> index in the returned graph
      replacerCalls |-> <<>>,    \* per group, the calls of the replacer
      replacementGroups |-> <<>>, map |-> EmptyMap, force |-> FALSE,
      replacer |-> mustNotHappen,
      walkAll |-> FALSE,         \* the rewrite builder walked all old nodes
      predicate |-> {}, traversal |-> TraversalStart, types |-> {},
      set |-> NoSet, prevSet |-> NoSet,
      value |-> <<>>,            \* what a query returned
      arg |-> <<>>,              \* the node or name a query was called with
      built |-> FALSE,           \* the call built the parent index
      observed |-> <<>> ]        \* the attribute set the store held for the
                                 \* target of a write, after the write

\* A rewrite or remap that rebuilds the receiver in place.
HeapAfterInPlace(this, r) ==
    <<IF r.builderMade THEN r.newGraph ELSE this>>
    \o (IF r.builderMade THEN <<r.newGraph>> ELSE <<>>)
    \o (IF r.returned = "corrected" THEN <<r.corrected>> ELSE <<>>)

\* The heap and the call record after a rewrite or remap of graphs[1].
HeapAfter(this, r) ==
    <<this>>
    \o (IF r.builderMade THEN <<r.newGraph>> ELSE <<>>)
    \o (IF r.returned = "corrected" THEN <<r.corrected>> ELSE <<>>)

ResultSlot(r) ==
    CASE r.returned = "this" -> 1
      [] r.returned = "newGraph" -> 2
      [] r.returned = "corrected" -> 3
      [] OTHER -> 0

RetAfter(op, r) ==
    [NoRet EXCEPT !.op = op, !.error = r.error,
                  !.result = ResultSlot(r),
                  !.newGraph = IF r.builderMade THEN 2 ELSE 0,
                  !.builderMade = r.builderMade,
                  !.loss = r.loss,
                  !.reconstituted = r.reconstituted,
                  !.final = r.final,
                  !.replacerCalls = r.replacerCalls]

\* -------------------------------------------------------------------- Init

EmptyBuilder == [types |-> <<>>, topLevels |-> <<>>, typeAttributes |-> <<>>]

Init ==
    /\ \E haveProvenanceAttributes \in BOOLEAN :
            graphs = <<NewTypeGraph(1, haveProvenanceAttributes)>>
    /\ builder = EmptyBuilder
    /\ ret = NoRet
    /\ fp = FpIdle
    /\ writes = 0

This == graphs[1]

\* ------------------------------------------------------------- TypeBuilder

BuilderSize ==
    Len(builder.types)
    + SumSeq([i \in DOMAIN builder.types |-> Len(builder.types[i].children)])
    + Len(builder.topLevels)
    + SumSeq([i \in DOMAIN builder.typeAttributes |->
                IF ProvenanceKind \in DOMAIN builder.typeAttributes[i].attrs
                THEN Cardinality(builder.typeAttributes[i].attrs[ProvenanceKind])
                ELSE 0])

\* No call is in progress and the last call's result has been taken.
Idle == ret.op = "none" /\ ~fp.active

Building == Idle /\ ~isFrozen(This) /\ BuilderSize < MaxSize

\* The builder adds a node, with an empty attribute set.
AddType ==
    /\ Building
    /\ Len(builder.types) < MaxNodes
    /\ builder' = [builder EXCEPT
            !.types = Append(@, Type(This.serial, Len(builder.types), <<>>, FALSE)),
            !.typeAttributes = Append(@, Slot(emptyTypeAttributes))]
    /\ UNCHANGED <<graphs, ret, fp, writes>>

\* The builder gives node p the child c.
AddChild ==
    /\ Building
    /\ \E p \in DOMAIN builder.types, c \in 0..(Len(builder.types) - 1) :
        /\ c \notin Range(builder.types[p].children)
        /\ builder' = [builder EXCEPT !.types[p].children = Append(@, c)]
    /\ UNCHANGED <<graphs, ret, fp, writes>>

\* The builder gives node p the child c, in a graph built for a traversal.
AddChildForTraversal ==
    /\ Idle
    /\ ~isFrozen(This)
    /\ BuilderSize < MaxTraversalSize
    /\ \E p \in DOMAIN builder.types, c \in 0..(Len(builder.types) - 1) :
        /\ c \notin Range(builder.types[p].children)
        /\ builder' = [builder EXCEPT !.types[p].children = Append(@, c)]
    /\ UNCHANGED <<graphs, ret, fp, writes>>

\* The builder names a node as a top-level.
AddTopLevel ==
    /\ Building
    /\ \E name \in TopLevelNames, i \in 0..(Len(builder.types) - 1) :
        /\ \A j \in DOMAIN builder.topLevels : builder.topLevels[j].name # name
        /\ builder' = [builder EXCEPT !.topLevels =
                Append(@, [name |-> name, tref |-> makeTypeRef(This.serial, i)])]
    /\ UNCHANGED <<graphs, ret, fp, writes>>

\* The builder records an origin marker on a node.
AddProvenance ==
    /\ Building
    /\ This.haveProvenanceAttributes
    /\ \E i \in DOMAIN builder.typeAttributes, m \in Markers :
        LET a == builder.typeAttributes[i].attrs
            have == UNION tryGetInMap(a, ProvenanceKind)
        IN /\ m \notin have
           /\ builder' = [builder EXCEPT !.typeAttributes[i] =
                    Slot(setInMap(a, ProvenanceKind, have \cup {m}))]
    /\ UNCHANGED <<graphs, ret, fp, writes>>

\* ------------------------------------------------------------------ Freeze

\* freeze(...) is called on graphs[1]: by its builder when it finishes, or
\* once more afterwards, with the builder's arrays or with empty ones.
Freeze ==
    /\ Idle
    /\ \E args \in {builder, EmptyBuilder} :
        LET r == freeze(This, args.topLevels, args.types, args.typeAttributes)
        IN /\ graphs' = [graphs EXCEPT ![1] = r.graph]
           /\ ret' = [NoRet EXCEPT !.op = "freeze", !.error = r.error]
    /\ UNCHANGED <<builder, fp, writes>>

\* --------------------------------------------------------- transformations

NonEmptySubsets(S) == (SUBSET S) \ {{}}

MinOf(S) == CHOOSE x \in S : \A y \in S : x <= y

\* The lists of at most k replacement groups over the nodes N: non-empty,
\* pairwise disjoint, listed by ascending least member.
RECURSIVE GroupLists(_, _)
GroupLists(N, k) ==
    IF k = 0 THEN {<<>>}
    ELSE LET shorter == GroupLists(N, k - 1)
         IN shorter \cup UNION
            { { Append(s, A) : A \in {B \in NonEmptySubsets(N) :
                                        \A j \in 1..(k - 1) :
                                            /\ B \cap s[j] = {}
                                            /\ MinOf(s[j]) < MinOf(B)} }
              : s \in {x \in shorter : Len(x) = k - 1} }

\* The replacers: one that declares the attributes lost is taken to build a
\* node without provenance.
Replacers(g) ==
    {r \in [mode : {"fresh", "merge"},
            provenance : IF g.haveProvenanceAttributes
                         THEN SUBSET Markers ELSE {{}},
            lost : IF g.haveProvenanceAttributes THEN BOOLEAN ELSE {FALSE},
            forwarding : BOOLEAN] :
        r.lost => r.provenance = {}}

\* The substitution maps over the nodes N: no image is itself mapped.
RemapMaps(N) == UNION {[D -> N \ D] : D \in SUBSET N}

Callable == Idle /\ isFrozen(This)

\* this.rewrite(..., replacementGroups, ..., replacer, force).  force is read
\* only beside an empty group list, and is varied only there.
Rewrite ==
    /\ Callable
    /\ \E replacementGroups \in GroupLists(NodeIndexes(This), MaxGroups),
          force \in BOOLEAN, walkAll \in BOOLEAN :
        /\ replacementGroups # <<>> => ~force
        /\ \E replacer \in (IF replacementGroups = <<>> THEN {mustNotHappen}
                            ELSE Replacers(This)) :
            LET r == rewrite(This, replacementGroups, replacer, force, walkAll)
            IN /\ graphs' = HeapAfter(This, r)
               /\ ret' = [RetAfter("rewrite", r) EXCEPT
                            !.replacementGroups = replacementGroups,
                            !.force = force, !.replacer = replacer,
                            !.walkAll = walkAll /\ (force \/ replacementGroups # <<>>)]
    /\ fp' = FpIdle
    /\ UNCHANGED <<builder, writes>>

\* this.remap(..., map, ..., force)
Remap ==
    /\ Callable
    /\ \E map \in RemapMaps(NodeIndexes(This)), force \in BOOLEAN :
        /\ DOMAIN map # {} => ~force
        /\ LET r == remap(This, map, force)
           IN /\ graphs' = HeapAfter(This, r)
              /\ ret' = [RetAfter("remap", r) EXCEPT !.map = map,
                                                      !.force = force]
    /\ fp' = FpIdle
    /\ UNCHANGED <<builder, writes>>

\* this.garbageCollect(...)
GarbageCollect ==
    /\ Callable
    /\ LET r == garbageCollect(This)
       IN /\ graphs' = HeapAfter(This, r)
          /\ ret' = RetAfter("garbageCollect", r)
    /\ fp' = FpIdle
    /\ UNCHANGED <<builder, writes>>

\* this.allNamedTypes(), for every set of nodes isNamedType may accept.
AllNamedTypes ==
    /\ Callable
    /\ \E named \in SUBSET NodeIndexes(This) :
        LET r == filterTypes(This, named)
        IN ret' = [NoRet EXCEPT !.op = "allNamedTypes", !.error = r.error,
                                !.predicate = named,
                                !.traversal = r.traversal, !.types = r.set]
    /\ graphs' = <<This>>
    /\ fp' = FpIdle
    /\ UNCHANGED <<builder, writes>>

\* this.rewriteFixedPoint(...) is entered: let graph = this.
FixedPointEnter ==
    /\ Callable
    /\ graphs' = <<This>>
    /\ \E walkAll \in BOOLEAN :
        fp' = [active |-> TRUE, graph |-> 1, iter |-> 0, walkAll |-> walkAll,
               history |-> <<>>]
    /\ ret' = [NoRet EXCEPT !.op = "rewriteFixedPoint"]
    /\ UNCHANGED <<builder, writes>>

\* The body of the loop of rewriteFixedPoint: `graph` is the loop's variable, r
\* what the forced rewrite without groups gave.
FixedPointStep(receiver, graph, r) ==
    LET entry == [receiver |-> receiver, graph |-> fp.graph,
                  before |-> Cardinality(allTypesUnordered(graph)),
                  after |-> Cardinality(allTypesUnordered(r.newGraph)),
                  groups |-> FixedPointGroups(graphs[receiver]),
                  force |-> FixedPointForce,
                  replacerCalled |-> ReplacerCalled(r)]
        kept == IF fp.graph = 1 THEN <<This>> ELSE <<This, graph>>
        threw == ReplacerCalled(r) \/ r.returned = "none"
    IN /\ fp' = [fp EXCEPT !.active = (~threw
                                       /\ ~FixedPointStable(graph, r.newGraph)),
                           !.graph = IF ~threw
                                        /\ ~FixedPointStable(graph, r.newGraph)
                                     THEN 2 ELSE @,
                           !.iter = @ + 1,
                           !.history = Append(@, entry)]
       /\ IF ReplacerCalled(r)
          THEN \* mustNotHappen was called and threw
               /\ graphs' = kept
               /\ ret' = [NoRet EXCEPT !.op = "rewriteFixedPoint",
                                       !.error = "fatal"]
          ELSE IF r.returned = "none"
          THEN \* the rewrite threw: so does rewriteFixedPoint
               /\ graphs' = kept
               /\ ret' = [NoRet EXCEPT !.op = "rewriteFixedPoint",
                                       !.error = r.error, !.loss = r.loss]
          ELSE IF FixedPointStable(graph, r.newGraph)
          THEN \* return graph
               /\ graphs' = kept
               /\ ret' = [NoRet EXCEPT !.op = "rewriteFixedPoint",
                                       !.result = fp.graph]
          ELSE \* graph = newGraph
               /\ graphs' = <<This, r.newGraph>>
               /\ ret' = [NoRet EXCEPT !.op = "rewriteFixedPoint"]

\* One iteration of the loop of rewriteFixedPoint.
FixedPointIterate ==
    /\ fp.active
    /\ fp.iter < MaxIter
    /\ FixedPointStep(FixedPointReceiver(fp.graph), graphs[fp.graph],
                      rewrite(graphs[FixedPointReceiver(fp.graph)],
                              FixedPointGroups(graphs[FixedPointReceiver(fp.graph)]),
                              mustNotHappen, FixedPointForce, fp.walkAll))
    /\ UNCHANGED <<builder, writes>>

\* ------------------------------------------------- attribute store actions

\* A node of some other generation.
ForeignType(g) == Type(g.serial + 1, 0, <<>>, FALSE)

\* The store of graphs[1] takes a call: the first of the caller's, or the one
\* after a set.
StoreCallable ==
    /\ isFrozen(This)
    /\ ~fp.active
    /\ ret.op \in {"none", "set", "setForTopLevel"}

\* attributeStore.set(kind, t, value) on graphs[1].
AttrSet ==
    /\ StoreCallable
    /\ writes < MaxWrites
    /\ \E kind \in Kinds, value \in AttributeValues,
          t \in allTypesUnordered(This) \cup {ForeignType(This)} :
        LET call == [kind |-> kind, serial |-> t.typeRef.serial,
                     index |-> t.typeRef.index, value |-> value,
                     before |-> IF TypeRefGraphOk(t.typeRef, This)
                                THEN tryGet(This, kind, t) ELSE {}]
        IN /\ ret' = [NoRet EXCEPT !.op = "set", !.set = call,
                        !.prevSet = IF ret.op = "set" /\ ret.error = "none"
                                    THEN ret.set ELSE NoSet,
                        !.error = IF TypeRefGraphOk(t.typeRef, This)
                                  THEN "none" ELSE "fatal",
                        !.observed = IF TypeRefGraphOk(t.typeRef, This)
                                     THEN setInMapArgument(
                                            attributesForType(This, t),
                                            kind, value)
                                     ELSE <<>>]
           /\ graphs' = IF TypeRefGraphOk(t.typeRef, This)
                        THEN [graphs EXCEPT ![1].values =
                                StoreSetValues(This, kind, t, value)]
                        ELSE graphs
    /\ writes' = writes + 1
    /\ fp' = FpIdle
    /\ UNCHANGED <<builder>>

\* attributeStore.setForTopLevel(kind, topLevelName, value) on graphs[1].
AttrSetForTopLevel ==
    /\ StoreCallable
    /\ writes < MaxWrites
    /\ \E kind \in Kinds, value \in AttributeValues, name \in TopLevelNames :
        /\ graphs' = [graphs EXCEPT ![1].topLevelValues =
                        StoreSetForTopLevelValues(This, kind, name, value)]
        /\ ret' = [NoRet EXCEPT !.op = "setForTopLevel",
                        !.set = [NoSet EXCEPT !.kind = kind, !.value = value],
                        !.arg = name,
                        !.observed = setInMapArgument(
                                        attributesForTopLevel(This, name),
                                        kind, value)]
    /\ writes' = writes + 1
    /\ fp' = FpIdle
    /\ UNCHANGED <<builder>>

\* ----------------------------------------------------------------- queries

\* graph.topLevels, on an open or a frozen graph.
TopLevels ==
    /\ Idle
    /\ LET r == getTopLevels(This)
       IN ret' = [NoRet EXCEPT !.op = "topLevels", !.error = r.error,
                               !.value = r.value]
    /\ UNCHANGED <<graphs, builder, fp, writes>>

\* graph.allTypesUnordered(), on an open or a frozen graph.
AllTypesUnordered ==
    /\ Idle
    /\ LET r == allTypesUnorderedChecked(This)
       IN ret' = [NoRet EXCEPT !.op = "allTypesUnordered", !.error = r.error,
                               !.value = r.value]
    /\ UNCHANGED <<graphs, builder, fp, writes>>

\* freeze(...) called by a builder whose typeAttributes array has no entry,
\* or only undefined entries, for the types.
FreezeSparse ==
    /\ Idle
    /\ ~isFrozen(This)
    /\ builder.types # <<>>
    /\ \E typeAttributes \in {<<>>, [i \in DOMAIN builder.types |-> UndefinedSlot]} :
        LET r == freeze(This, builder.topLevels, builder.types, typeAttributes)
        IN /\ graphs' = [graphs EXCEPT ![1] = r.graph]
           /\ ret' = [NoRet EXCEPT !.op = "freeze", !.error = r.error]
    /\ UNCHANGED <<builder, fp, writes>>

\* freeze(...) called with a node, or with a top-level reference, of another
\* generation.
FreezeForeign ==
    /\ Idle
    /\ ~isFrozen(This)
    /\ builder.types # <<>>
    /\ \E where \in {"node", "topLevel"} :
        /\ where = "topLevel" => builder.topLevels # <<>>
        /\ LET types == IF where = "node"
                        THEN [builder.types EXCEPT ![1] = ForeignType(This)]
                        ELSE builder.types
               topLevels == IF where = "topLevel"
                            THEN [builder.topLevels EXCEPT ![1].tref =
                                    makeTypeRef(This.serial + 1, 0)]
                            ELSE builder.topLevels
               r == freeze(This, topLevels, types, builder.typeAttributes)
           IN /\ graphs' = [graphs EXCEPT ![1] = r.graph]
              /\ ret' = [NoRet EXCEPT !.op = "freeze", !.error = r.error,
                                      !.arg = where]
    /\ UNCHANGED <<builder, fp, writes>>

\* attributeStore.attributesForType(t), for a node of the graph or of another.
AttributesForType ==
    /\ Callable
    /\ \E t \in allTypesUnordered(This) \cup {ForeignType(This)} :
        LET r == attributesForTypeChecked(This, t)
        IN ret' = [NoRet EXCEPT !.op = "attributesForType", !.error = r.error,
                               !.value = r.value, !.arg = t]
    /\ UNCHANGED <<graphs, builder, fp, writes>>

\* attributeStore.attributesForTopLevel(name)
AttributesForTopLevel ==
    /\ Callable
    /\ \E name \in TopLevelNames :
        ret' = [NoRet EXCEPT !.op = "attributesForTopLevel",
                            !.value = attributesForTopLevel(This, name),
                            !.arg = name]
    /\ UNCHANGED <<graphs, builder, fp, writes>>

\* graph.getParentsOfType(t), for a node of the graph or of another.
GetParentsOfType ==
    /\ Callable
    /\ \E t \in allTypesUnordered(This) \cup {ForeignType(This)} :
        LET r == getParentsOfType(This, t)
        IN /\ graphs' = [graphs EXCEPT ![1] = r.graph]
           /\ ret' = [NoRet EXCEPT !.op = "getParentsOfType",
                                   !.error = r.error, !.value = r.value,
                                   !.arg = t, !.built = r.built]
    /\ UNCHANGED <<builder, fp, writes>>

\* The caller takes the result of the last call and drops the generations it
\* derived.
Return ==
    /\ ret.op # "none"
    /\ ~fp.active
    /\ ret' = NoRet
    /\ fp' = FpIdle
    /\ graphs' = <<This>>
    /\ UNCHANGED <<builder, writes>>

\* ---------------------------------------------------------- specifications

Build == AddType \/ AddChild \/ AddTopLevel \/ AddProvenance

Next ==
    \/ AddType
    \/ AddChild
    \/ AddTopLevel
    \/ AddProvenance
    \/ Freeze
    \/ Rewrite
    \/ Remap
    \/ GarbageCollect
    \/ AllNamedTypes
    \/ FixedPointEnter
    \/ FixedPointIterate
    \/ Return

Spec == Init /\ [][Next]_vars

\* Graphs with up to MaxTraversalSize nodes, children and top-levels, and
\* their traversals.
NextTraversal ==
    \/ AddType
    \/ AddChildForTraversal
    \/ AddTopLevel
    \/ Freeze
    \/ AllNamedTypes
    \/ Return

SpecTraversal == Init /\ [][NextTraversal]_vars

\* The attribute store of a frozen graph, written through its public methods.
NextStore ==
    \/ AddType
    \/ AddTopLevel
    \/ Freeze
    \/ FreezeSparse
    \/ AttrSet
    \/ AttrSetForTopLevel
    \/ AttributesForType
    \/ AttributesForTopLevel
    \/ Return

SpecStore == Init /\ [][NextStore]_vars

\* The queries of a graph, open or frozen.
NextQueries ==
    \/ Build
    \/ Freeze
    \/ TopLevels
    \/ AllTypesUnordered
    \/ GetParentsOfType
    \/ Return

SpecQueries == Init /\ [][NextQueries]_vars

\* Freezes, those a builder gets wrong included, and what the graph shows
\* afterwards.
NextFreeze ==
    \/ AddType
    \/ AddChild
    \/ AddTopLevel
    \/ Freeze
    \/ FreezeForeign
    \/ TopLevels
    \/ AllTypesUnordered
    \/ Return

SpecFreeze == Init /\ [][NextFreeze]_vars

\* ------------------------------------------------------------- properties

\* Some call of the caller's has just returned op.
Returned(op) == ret.op = op

\* C1: rewrite with no replacement groups and force = false, and remap with
\* an empty map and force = false, return the receiver itself: no builder is
\* made, no new graph is allocated, and the receiver is left as it was.
NoOpShortCircuit ==
    [][ (/\ ret.op = "none"
         /\ \/ ret'.op = "rewrite" /\ ret'.replacementGroups = <<>>
            \/ ret'.op = "remap" /\ DOMAIN ret'.map = {}
         /\ ~ret'.force)
        => (/\ ret'.result = 1
            /\ ret'.error = "none"
            /\ ~ret'.builderMade
            /\ ret'.newGraph = 0
            /\ graphs' = graphs
            /\ Len(graphs') = 1) ]_vars

NoOpShortCircuitWitness ==
    /\ Returned("rewrite")
    /\ ret.replacementGroups = <<>>
    /\ ~ret.force
    /\ ret.result = 1
    /\ Len(This.types) >= 2
    /\ Reachable(This) # NodeIndexes(This)

\* C3: allNamedTypes terminates on a graph with cycles and shared nodes, and
\* returns exactly the nodes satisfying the predicate that are reachable from
\* a top-level root (passing through nodes that do not satisfy it), each
\* once.
AllNamedTypesExact ==
    Returned("allNamedTypes") =>
        /\ ~ret.traversal.diverged
        /\ ret.error = "none"
        /\ ret.types = Reachable(This) \cap ret.predicate
        /\ Range(ret.traversal.types) = ret.types
        /\ Len(ret.traversal.types) = Cardinality(ret.types)

AllNamedTypesExactWitness ==
    /\ Returned("allNamedTypes")
    /\ \E i \in Reachable(This) \ ret.predicate :
         \E c \in Range(TypeAt(This, i).children) :
            /\ c \in ret.predicate
            /\ i \in Closure(This, {c})
    /\ ret.traversal.calls > Cardinality(Reachable(This))
    /\ ret.types # {}

\* C10: a graph goes from open to frozen once: a freeze of a frozen graph is
\* a fatal error that changes nothing, and no operation takes a frozen graph
\* back to open.
FreezeOnce ==
    [][ /\ isFrozen(graphs[1]) => isFrozen(graphs'[1])
        /\ (isFrozen(graphs[1]) /\ ret.op = "none" /\ ret'.op = "freeze")
             => (ret'.error = "fatal" /\ graphs' = graphs)
        /\ (~isFrozen(graphs[1]) /\ ret'.op = "freeze" /\ ret'.error = "none")
             => isFrozen(graphs'[1])
        /\ \A s \in DOMAIN graphs' : s > 1 => isFrozen(graphs'[s]) ]_vars

FreezeOnceWitness ==
    /\ Returned("freeze")
    /\ ret.error = "fatal"
    /\ isFrozen(This)
    /\ Len(This.types) >= 1
    /\ Len(This.topLevels) >= 1

\* The nodes of `new` that table f gives the nodes S of `old`.
Images(f, S) == {f[i + 1] : i \in S}

\* Table f carries the children of old node i over to its copy in `new`.
CarriesChildren(old, new, f, i) ==
    /\ f[i + 1] \in NodeIndexes(new)
    /\ TypeAt(new, f[i + 1]).typeRef = makeTypeRef(new.serial, f[i + 1])
    /\ Range(TypeAt(new, f[i + 1]).children)
         = Images(f, Range(TypeAt(old, i).children))

\* Table f carries the top levels of `old` over to `new`, name by name.
CarriesTopLevels(old, new, f) ==
    /\ Len(new.topLevels) = Len(old.topLevels)
    /\ \A k \in DOMAIN old.topLevels :
        /\ new.topLevels[k].name = old.topLevels[k].name
        /\ typeRefIndex(new.topLevels[k].type.typeRef)
             = f[typeRefIndex(old.topLevels[k].type.typeRef) + 1]

RemapSubstitutes ==
    (Returned("remap") /\ DOMAIN ret.map # {}) =>
        /\ ret.builderMade
        /\ Len(graphs) = 2
        /\ LET old == graphs[1]
               new == graphs[2]
               f == ret.reconstituted
               unmapped == NodeIndexes(old) \ DOMAIN ret.map
               carried == {i \in unmapped : f[i + 1] # -1}
           IN /\ \A m \in DOMAIN ret.map : f[m + 1] = f[ret.map[m] + 1]
              /\ \A i, j \in carried : f[i + 1] = f[j + 1] => i = j
              /\ Images(f, carried) = NodeIndexes(new)
              /\ \A i \in carried : CarriesChildren(old, new, f, i)
              /\ CarriesTopLevels(old, new, f)
        /\ (ret.error = "none") <=> (ret.result = 2)

RemapSubstitutesWitness ==
    /\ Returned("remap")
    /\ ret.result = 2
    /\ \E m \in DOMAIN ret.map :
        /\ m \in TopLevelIndexes(This)
        /\ \E i \in NodeIndexes(This) \ DOMAIN ret.map :
              m \in Range(TypeAt(This, i).children)
        /\ ret.reconstituted[ret.map[m] + 1] # -1

FixedPointTerminates ==
    (\A n \in DOMAIN fp.history :
        fp.history[n].after <= fp.history[n].before) =>
        /\ fp.active => fp.iter < MaxIter /\ fp.iter <= 1
        /\ fp.iter <= 2
        /\ Len(fp.history) = fp.iter

FixedPointTerminatesWitness ==
    /\ Returned("rewriteFixedPoint")
    /\ ~fp.active
    /\ ret.result = 2
    /\ fp.iter = 2
    /\ fp.history[1].after < fp.history[1].before

\* C5: every iteration of rewriteFixedPoint applies the forced rewrite
\* without groups to the graph the previous iteration produced (the loop's
\* variable), and the graph returned has the minimal stable node count of the
\* chain.
FixedPointIteratesOnPrevious ==
    /\ \A n \in DOMAIN fp.history :
            fp.history[n].receiver = fp.history[n].graph
    /\ (Returned("rewriteFixedPoint") /\ ~fp.active /\ ret.result # 0) =>
            \A n \in DOMAIN fp.history :
                Cardinality(allTypesUnordered(graphs[ret.result]))
                    <= fp.history[n].after

\* C6: with provenance tracking on and no attributes declared lost, a
\* rewrite or remap raises IRTypeAttributesNotPropagated exactly when some
\* marker of the old graph's provenance is missing from the new graph's, and
\* the error's count and indexes are the missing markers.
ProvenanceLaw ==
    (/\ ret.op \in {"rewrite", "remap", "garbageCollect"}
     /\ ret.builderMade
     /\ graphs[1].haveProvenanceAttributes
     /\ ~ret.replacer.lost) =>
        LET missing == allProvenance(graphs[1]) \ allProvenance(graphs[2])
        IN /\ (missing # {}) <=> (ret.error = "IRTypeAttributesNotPropagated")
           /\ (missing # {}) =>
                /\ ret.loss.raised
                /\ ret.loss.count = Cardinality(missing)
                /\ ret.loss.indexes = missing

\* The last two calls of the store were set on one node and one kind.
SetTwice ==
    /\ Returned("set")
    /\ ret.error = "none"
    /\ ret.prevSet # NoSet
    /\ ret.prevSet.kind = ret.set.kind
    /\ ret.prevSet.index = ret.set.index

\* C8 (as amended): after set(kindX, A, v1) and then set(kindX, A, v2),
\* tryGet(kindX, A) is v2: set overwrites the entry of the kind, whatever the
\* kind's merge rule.
SetOverwrites ==
    SetTwice =>
        tryGet(This, ret.set.kind, TypeAt(This, ret.set.index))
            = {ret.set.value}

SetOverwritesWitness ==
    /\ SetTwice
    /\ ret.set.kind = ProvenanceKind
    /\ ret.prevSet.value \ ret.set.value # {}
    /\ ret.set.value # {}
    /\ ret.set.before = {ret.prevSet.value}

\* C8 (as stated): after set(kindX, A, v1) and then set(kindX, A, v2),
\* tryGet(kindX, A) is v1 and v2 combined by the merge rule of the kind.
SetMerges ==
    SetTwice =>
        tryGet(This, ret.set.kind, TypeAt(This, ret.set.index))
            = {KindCombine(ret.set.kind, ret.prevSet.value, ret.set.value)}

\* C11: topLevels and allTypesUnordered abort with a fatal error on a graph
\* that is not frozen, returning no value, and succeed on a frozen graph.
FrozenOnlyQueries ==
    /\ Returned("topLevels") =>
        /\ isFrozen(This) <=> ret.error = "none"
        /\ ~isFrozen(This) => (ret.error = "fatal" /\ ret.value = <<>>)
        /\ isFrozen(This) => ret.value = This.topLevels
    /\ Returned("allTypesUnordered") =>
        /\ isFrozen(This) <=> ret.error = "none"
        /\ ~isFrozen(This) => (ret.error = "fatal" /\ ret.value = {})
        /\ isFrozen(This) => ret.value = Range(This.types)

FrozenOnlyQueriesWitness ==
    /\ Returned("topLevels")
    /\ ~isFrozen(This)
    /\ ret.error = "fatal"
    /\ Len(builder.topLevels) >= 1
    /\ Len(builder.types) >= 2

\* C12: once a graph is frozen, no operation on it or on its attribute store
\* changes what topLevels, allTypesUnordered, attributesForType,
\* attributesForTopLevel and tryGet return.
FrozenQueriesStable ==
    [][ isFrozen(graphs[1]) =>
        /\ getTopLevels(graphs'[1]) = getTopLevels(graphs[1])
        /\ allTypesUnorderedChecked(graphs'[1]) = allTypesUnorderedChecked(graphs[1])
        /\ \A t \in allTypesUnordered(graphs[1]) :
            /\ attributesForType(graphs'[1], t) = attributesForType(graphs[1], t)
            /\ \A kind \in Kinds :
                    tryGet(graphs'[1], kind, t) = tryGet(graphs[1], kind, t)
        /\ \A name \in TopLevelNames :
                attributesForTopLevel(graphs'[1], name)
                    = attributesForTopLevel(graphs[1], name) ]_vars

\* Some rewrite, remap or garbageCollect has returned a graph that is not the
\* receiver.
ReturnedDerived ==
    /\ ret.op \in {"rewrite", "remap", "garbageCollect"}
    /\ ret.result \in {2, 3}

\* C13 (as amended): a graph returned by rewrite, remap or garbageCollect
\* that is not the receiver is a new TypeGraph whose serial is the receiver's
\* serial + 1, or the receiver's serial + 2 when rewrite ran the corrective
\* removeIndirectionIntersections pass, which derives one more generation.
DerivedSerial ==
    ReturnedDerived =>
        /\ graphs[2].serial = graphs[1].serial + 1
        /\ ret.result = 3 => graphs[3].serial = graphs[1].serial + 2
        /\ graphs[ret.result].serial =
                graphs[1].serial + (IF ret.result = 3 THEN 2 ELSE 1)
        /\ \A t \in allTypesUnordered(graphs[ret.result]) :
                t.typeRef.serial = graphs[ret.result].serial

DerivedSerialWitness ==
    /\ ReturnedDerived
    /\ ret.op = "rewrite"
    /\ ret.result = 3
    /\ ret.replacer.forwarding
    /\ Len(graphs[3].types) >= 2

\* C13 (as stated): a graph returned by rewrite, remap or garbageCollect that
\* is not the receiver has the receiver's serial + 1, also after the
\* corrective pass.
DerivedSerialPlusOne ==
    ReturnedDerived => graphs[ret.result].serial = graphs[1].serial + 1

\* C14: rewrite, remap, garbageCollect and rewriteFixedPoint leave the frozen
\* receiver as it was (node array, top levels, attribute sets, serial, frozen
\* status, parent cache), and no derived generation holds a node of the
\* receiver or its serial.
NonDestructive ==
    [][ (/\ isFrozen(graphs[1])
         /\ ret'.op \in {"rewrite", "remap", "garbageCollect",
                         "rewriteFixedPoint"})
        => /\ graphs'[1] = graphs[1]
           /\ \A s \in DOMAIN graphs' : s > 1 =>
                /\ graphs'[s].serial > graphs[1].serial
                /\ allTypesUnordered(graphs'[s])
                        \cap allTypesUnordered(graphs[1]) = {} ]_vars

NonDestructiveWitness ==
    /\ Returned("rewrite")
    /\ ret.result = 2
    /\ ret.replacementGroups # <<>>
    /\ Len(graphs[2].types) < Len(This.types)
    /\ allProvenance(This) # {}
    /\ allProvenance(graphs[2]) # allProvenance(This)

\* C15: a remap never needs a forwarding placeholder: whenever remap or
\* garbageCollect builds a new generation the builder's
\* didAddForwardingIntersection flag is false and the assertion at the end
\* of remap does not fail; a set flag would make remap abort with a fatal
\* error and return no graph.
RemapNeverForwards ==
    /\ RemapAssertFails(TRUE)
    /\ (ret.op \in {"remap", "garbageCollect"} /\ ret.builderMade) =>
        /\ ~didAddForwardingIntersection(graphs[2])
        /\ ret.error # "fatal"
        /\ ret.error = "none" => ret.result = 2
        /\ ret.error # "none" => ret.result = 0

RemapNeverForwardsWitness ==
    /\ Returned("remap")
    /\ ret.builderMade
    /\ ret.result = 2
    /\ Cardinality(DOMAIN ret.map) >= 1
    /\ \E m \in DOMAIN ret.map :
            \E i \in NodeIndexes(This) :
                /\ m \in Range(TypeAt(This, i).children)
                /\ i \in Closure(This, {ret.map[m]})

\* What the store holds for a node of its graph, or the empty set.
StoredForType(g, t) ==
    LET i == t.typeRef.index + 1
    IN IF i \in DOMAIN g.values /\ g.values[i].def
       THEN g.values[i].attrs ELSE emptyTypeAttributes

StoredForTopLevel(g, name) ==
    IF name \in DOMAIN g.topLevelValues
    THEN g.topLevelValues[name] ELSE emptyTypeAttributes

\* C16 (as amended): attributesForType(node), for a node of the store's own
\* graph, and attributesForTopLevel(name), for every name, return the stored
\* attribute set, or the empty set when the slot is absent, out of the
\* array's range or the name unknown; attributesForType of a node of another
\* graph is a fatal error.
AttributeLookups ==
    /\ Returned("attributesForType") =>
        /\ (ret.arg.typeRef.serial = This.serial) <=> (ret.error = "none")
        /\ ret.error = "none" => ret.value = StoredForType(This, ret.arg)
        /\ ret.error # "none" => ret.error = "fatal"
    /\ Returned("attributesForTopLevel") =>
        /\ ret.error = "none"
        /\ ret.value = StoredForTopLevel(This, ret.arg)

AttributeLookupsWitness ==
    /\ Returned("attributesForType")
    /\ ret.error = "none"
    /\ ret.arg.typeRef.index + 1 \notin DOMAIN This.values
    /\ ret.value = emptyTypeAttributes
    /\ \E i \in DOMAIN This.values : This.values[i].def

\* C16 (as stated): attributesForType and attributesForTopLevel never fail,
\* for every node and every name they are called with.
AttributeLookupsNeverFail ==
    /\ Returned("attributesForType") =>
        /\ ret.error = "none"
        /\ ret.value \in {StoredForType(This, ret.arg), emptyTypeAttributes}
    /\ Returned("attributesForTopLevel") =>
        /\ ret.error = "none"
        /\ ret.value = StoredForTopLevel(This, ret.arg)

\* C17: a rewrite or remap reports IRTypeAttributesNotPropagated only if
\* provenance tracking is on, the builder did not declare attributes lost,
\* and the new graph's provenance lacks a marker of the old graph's; none is
\* reported when the new provenance is a superset of the old.
LostOnlyWhenLost ==
    (/\ ret.op \in {"rewrite", "remap", "garbageCollect"}
     /\ ret.error = "IRTypeAttributesNotPropagated") =>
        /\ graphs[1].haveProvenanceAttributes
        /\ ~ret.replacer.lost
        /\ allProvenance(graphs[1]) \ allProvenance(graphs[2]) # {}

\* C18: in a rewrite that builds a new generation, the builder finishes (the
\* new graph is frozen), then the lost-attribute check runs on that graph,
\* and only then, if and only if the builder flagged
\* didAddForwardingIntersection, removeIndirectionIntersections runs on the
\* new graph and its result is returned; without the flag the new graph is
\* returned as it is.
RewriteOrder ==
    (Returned("rewrite") /\ ret.builderMade) =>
        /\ Len(graphs) >= 2
        /\ isFrozen(graphs[2])
        /\ ret.loss = checkLostTypeAttributes(graphs[1], ret.replacer.lost,
                                              graphs[2])
        /\ ret.loss.raised =>
            /\ ret.error = "IRTypeAttributesNotPropagated"
            /\ ret.result = 0
            /\ Len(graphs) = 2
        /\ ~ret.loss.raised =>
            /\ ret.error = "none"
            /\ IF ret.replacer.forwarding
               THEN /\ ret.result = 3
                    /\ Len(graphs) = 3
                    /\ graphs[3] = removeIndirectionIntersections(
                                        graphs[2], ret.walkAll).graph
               ELSE /\ ret.result = 2
                    /\ Len(graphs) = 2

RewriteOrderWitness ==
    /\ Returned("rewrite")
    /\ ret.builderMade
    /\ ret.replacer.forwarding
    /\ ret.loss.raised
    /\ didAddForwardingIntersection(graphs[2])
    /\ Len(graphs) = 2

\* The nodes of g that have node t among their children.
ParentsOf(g, t) ==
    {p \in allTypesUnordered(g) : typeRefIndex(t.typeRef) \in Range(p.children)}

\* The last call of getParentsOfType returned the parents of its argument,
\* or failed on a node of another generation.
ParentsExact ==
    Returned("getParentsOfType") =>
        IF ret.arg.typeRef.serial = This.serial
        THEN /\ ret.error = "none"
             /\ ret.value = ParentsOf(This, ret.arg)
             /\ This.parentsDefined
             /\ \A t \in allTypesUnordered(This) :
                    This.parents[typeRefIndex(t.typeRef) + 1] = ParentsOf(This, t)
        ELSE /\ ret.error = "fatal"
             /\ ~ret.built

\* C19: on a frozen graph every call of getParentsOfType, first or later,
\* returns exactly the nodes that have the argument among their children;
\* the index is built by the first call and never again; a node of another
\* generation is a fatal error.
ParentsMemoized ==
    [][ /\ ParentsExact'
        /\ graphs[1].parentsDefined =>
            /\ graphs'[1].parentsDefined
            /\ graphs'[1].parents = graphs[1].parents
            /\ ret'.op = "getParentsOfType" => ~ret'.built
        /\ (ret'.op = "getParentsOfType" /\ ret'.built) =>
            (~graphs[1].parentsDefined /\ graphs'[1].parentsDefined) ]_vars

ParentsMemoizedWitness ==
    /\ Returned("getParentsOfType")
    /\ ret.error = "none"
    /\ ~ret.built
    /\ Cardinality(ret.value) >= 2
    /\ ret.arg \in ret.value

\* Depth-first pre-order with an explicit stack: the node on top is emitted
\* unless it was visited, and its children go on top in their order.
RECURSIVE PreOrder(_, _, _, _)
PreOrder(g, stack, visited, out) ==
    IF stack = <<>> THEN out
    ELSE IF Head(stack) \in visited
    THEN PreOrder(g, Tail(stack), visited, out)
    ELSE PreOrder(g, TypeAt(g, Head(stack)).children \o Tail(stack),
                  visited \cup {Head(stack)}, Append(out, Head(stack)))

\* The roots in the order of the top-level map.
Roots(g) ==
    [i \in DOMAIN g.topLevels |-> typeRefIndex(g.topLevels[i].type.typeRef)]

\* C20: on a frozen graph filterTypes/allNamedTypes emits the accepted nodes
\* in depth-first pre-order from the roots in top-level map order, children
\* in the order of their enumeration, no node twice; the sequence is a
\* function of the graph and the predicate.
TraversalOrder ==
    (Returned("allNamedTypes") /\ ret.error = "none") =>
        LET accepted(t) == t \in ret.predicate
            emitted == ret.traversal.types
        IN /\ ~ret.traversal.diverged
           /\ emitted = SelectSeq(PreOrder(This, Roots(This), {}, <<>>), accepted)
           /\ \A i, j \in DOMAIN emitted : emitted[i] = emitted[j] => i = j
           /\ ret.traversal.seen = Reachable(This)
           /\ ret.traversal = filterTypes(This, ret.predicate).traversal

TraversalOrderWitness ==
    /\ Returned("allNamedTypes")
    /\ ret.error = "none"
    /\ Len(ret.traversal.types) = 3
    /\ ret.traversal.types[2] > ret.traversal.types[3]
    /\ Len(TypeAt(This, ret.traversal.types[1]).children) >= 2
    /\ ret.traversal.calls > 3

\* The slot of the store's array at position i, undefined beyond its length.
SlotAt(g, i) == IF i \in DOMAIN g.values THEN g.values[i] ELSE UndefinedSlot

\* The step is a successful set(kind, node, value) that kept to its frame.
SetFrame ==
    LET old == graphs[1]
        new == graphs'[1]
        call == ret'.set
        i == call.index + 1
        t == Type(call.serial, call.index, <<>>, FALSE)
    IN /\ Len(graphs') = Len(graphs)
       /\ [new EXCEPT !.values = old.values] = old
       /\ Len(new.values) = Max(Len(old.values), i)
       /\ \A j \in DOMAIN new.values : j # i => new.values[j] = SlotAt(old, j)
       /\ new.values[i].def
       /\ tryGetInMap(new.values[i].attrs, call.kind) = {call.value}
       /\ \A k \in Kinds \ {call.kind} :
            tryGetInMap(new.values[i].attrs, k) = tryGet(old, k, t)
       /\ ret'.observed = attributesForType(old, t)

\* The step is a setForTopLevel(kind, name, value) that kept to its frame.
SetForTopLevelFrame ==
    LET old == graphs[1]
        new == graphs'[1]
        call == ret'.set
        name == ret'.arg
    IN /\ Len(graphs') = Len(graphs)
       /\ [new EXCEPT !.topLevelValues = old.topLevelValues] = old
       /\ DOMAIN new.topLevelValues = DOMAIN old.topLevelValues \cup {name}
       /\ \A n \in DOMAIN old.topLevelValues :
            n # name => new.topLevelValues[n] = old.topLevelValues[n]
       /\ tryGetInMap(new.topLevelValues[name], call.kind) = {call.value}
       /\ \A k \in Kinds \ {call.kind} :
            tryGetInMap(new.topLevelValues[name], k)
                = tryGetInMap(attributesForTopLevel(old, name), k)
       /\ ret'.observed = attributesForTopLevel(old, name)

\* C21: set(kind, node, value) changes only the entry of that kind in that
\* node's slot, setForTopLevel only the entry of that kind under that name;
\* every other slot, name and kind, the rest of the graph and the attribute
\* set the store held before stay what they were; a rejected set changes
\* nothing; the length of the store's array never decreases.
AttributeWriteFrame ==
    [][ /\ (ret'.op = "set" /\ ret'.error = "none") => SetFrame
        /\ (ret'.op = "set" /\ ret'.error # "none") => graphs' = graphs
        /\ ret'.op = "setForTopLevel" => SetForTopLevelFrame
        /\ (isFrozen(graphs[1]) /\ graphs'[1].serial = graphs[1].serial) =>
                Len(graphs'[1].values) >= Len(graphs[1].values) ]_vars

AttributeWriteFrameWitness ==
    /\ ret.op = "set"
    /\ ret.error = "none"
    /\ ret.prevSet # NoSet
    /\ ret.prevSet.kind # ret.set.kind
    /\ ret.prevSet.index = ret.set.index
    /\ ret.set.index >= 1
    /\ ret.observed # emptyTypeAttributes
    /\ DOMAIN This.values[ret.set.index + 1].attrs = Kinds

\* C22: during rewriteFixedPoint no replacer call happens: every rewrite it
\* issues has an empty list of replacement groups and force = true, so
\* mustNotHappen is never called and rewriteFixedPoint never aborts with that
\* violation.
FixedPointNeverReplaces ==
    /\ \A n \in DOMAIN fp.history :
            /\ fp.history[n].groups = <<>>
            /\ fp.history[n].force
            /\ ~fp.history[n].replacerCalled
    /\ Returned("rewriteFixedPoint") => ret.error # "fatal"

FixedPointNeverReplacesWitness ==
    /\ Returned("rewriteFixedPoint")
    /\ ~fp.active
    /\ Len(fp.history) = 2
    /\ ret.error = "none"
    /\ ret.result = 2
    /\ Len(graphs[2].types) >= 1

\* C23: freeze is all-or-nothing: a freeze of an open graph that aborts with
\* a fatal violation, for a node or a top-level reference of another
\* generation, leaves the graph open and as it was; a graph becomes frozen
\* only by a freeze that resolved its top-levels.
FreezeAllOrNothing ==
    [][ /\ (~isFrozen(graphs[1]) /\ ret'.op = "freeze" /\ ret'.error = "fatal")
            => graphs' = graphs
        /\ (~isFrozen(graphs[1]) /\ isFrozen(graphs'[1]))
            => (ret'.op = "freeze" /\ ret'.error = "none") ]_vars

\* The part of C23 that holds: a freeze that aborts for a node of another
\* generation leaves the graph open and as it was.
FreezeNodeCheckFirst ==
    [][ (~isFrozen(graphs[1]) /\ ret'.op = "freeze" /\ ret'.error = "fatal"
            /\ ret'.arg = "node")
            => graphs' = graphs ]_vars

====
